---- MODULE Spec2Model ----
(***************************************************************************)
(* Model of caer's HLS and HSV colour-space converters                     *)
(* (caer/color/_hls.py and caer/color/_hsv.py).                            *)
(*                                                                         *)
(* The heap is the sequence of array objects allocated so far; an object's *)
(* identity is its index.  An object is either a raw array returned by the *)
(* native primitive (cspace = "ndarray") or a Tensor carrying a            *)
(* colour-space tag.  Pixel data is a term: the name of the original       *)
(* buffer followed by the conversion codes applied to it, so that two      *)
(* buffers are equal only if they were computed by the same native calls   *)
(* from the same original.                                                 *)
(*                                                                         *)
(* Every public function is an operator from a machine (heap, log) and an  *)
(* object identity to a result (heap, log, ok, out, msg); the log lists    *)
(* the shape checks, native calls and Tensor constructions of the call in  *)
(* the order in which they are executed.                                   *)
(***************************************************************************)
EXTENDS Integers, Sequences, FiniteSets, TLC

VARIABLES heap, held, last

vars == <<heap, held, last>>

(* ---- bounds ---------------------------------------------------------- *)

\* longest shape tuple of an input
MaxRank == 4
\* number of objects the caller may hold (its input and the results returned)
MaxHeld == 3

\* extents a dimension of an input may have
Dims == {3, 4}
\* colour-space tags an input may carry
InputTags == {"hls", "hsv", "bgr"}

(* ---- conversion codes (caer/color/_constants) ------------------------ *)

HLS2BGR == "HLS2BGR"
HLS2RGB == "HLS2RGB"
HSV2BGR == "HSV2BGR"
HSV2RGB == "HSV2RGB"
BGR2GRAY == "BGR2GRAY"
BGR2HSV == "BGR2HSV"
BGR2HLS == "BGR2HLS"
BGR2LAB == "BGR2LAB"

(* ---- helpers --------------------------------------------------------- *)

Shapes == UNION {[1..n -> Dims] : n \in 0..MaxRank}

Ev(op, by, what, on) == [op |-> op, by |-> by, what |-> what, on |-> on]

NoMsg == [kind |-> "", expected |-> 0, found |-> 0, src |-> "", dst |-> ""]

\* the error of the native primitive, passed through unchanged
NativeError == [kind |-> "cv.error", expected |-> 0, found |-> 0, src |-> "", dst |-> ""]

\* f'Tensor of shape 3 expected. Found shape {len(img.shape)}. This function
\*   converts a <src> Tensor to its <dst> counterpart'
ShapeMessage(img, src, dst) ==
  [kind |-> "ValueError", expected |-> 3, found |-> Len(img.shape),
   src |-> src, dst |-> dst]

\* raise: the call ends, nothing is returned
Raise(m, msg) ==
  [heap |-> m.heap, log |-> m.log, ok |-> FALSE, out |-> 0, msg |-> msg]

\* the machine after one evaluation of a shape validator on object img
Checked(m, validator, by, img) ==
  [heap |-> m.heap, log |-> Append(m.log, Ev("check", by, validator, img))]

(* ---- external collaborators ------------------------------------------ *)

\* shape of the array cv.cvtColor returns
OutShape(shape, code) ==
  IF code = BGR2GRAY THEN SubSeq(shape, 1, 2) ELSE shape

\* cv.cvtColor(img, code): a new array, or the native error on an array that
\* is not a 3-channel image
cvtColor(m, img, code, by) ==
  LET src == m.heap[img]
      lg  == Append(m.log, Ev("cvtColor", by, code, img))
  IN  IF Len(src.shape) = 3 /\ src.shape[3] = 3
      THEN [heap |-> Append(m.heap, [data   |-> Append(src.data, code),
                                     shape  |-> OutShape(src.shape, code),
                                     cspace |-> "ndarray"]),
            log  |-> lg, ok |-> TRUE, out |-> Len(m.heap) + 1, msg |-> NoMsg]
      ELSE Raise([heap |-> m.heap, log |-> lg], NativeError)

\* to_tensor(im, cspace=...): a new Tensor over im's data, stamped with cspace
to_tensor(m, im, cspace, by) ==
  [heap |-> Append(m.heap, [data   |-> m.heap[im].data,
                            shape  |-> m.heap[im].shape,
                            cspace |-> cspace]),
   log  |-> Append(m.log, Ev("to_tensor", by, cspace, im)),
   ok   |-> TRUE, out |-> Len(m.heap) + 1, msg |-> NoMsg]

_is_bgr_image(img) == Len(img.shape) = 3 /\ img.shape[Len(img.shape)] = 3

\* the BGR module's converters: validate, one native call, one Tensor
bgr2(m, img, code, dst, cspace, by) ==
  LET m1 == Checked(m, "_is_bgr_image", by, img) IN
  IF ~ _is_bgr_image(m.heap[img])
  THEN Raise(m1, ShapeMessage(m.heap[img], "BGR", dst))
  ELSE LET im == cvtColor(m1, img, code, by) IN
       IF ~ im.ok THEN im ELSE to_tensor(im, im.out, cspace, by)

bgr2gray(m, img) == bgr2(m, img, BGR2GRAY, "Grayscale", "gray", "bgr2gray")
bgr2hsv(m, img)  == bgr2(m, img, BGR2HSV, "HSV", "hsv", "bgr2hsv")
bgr2hls(m, img)  == bgr2(m, img, BGR2HLS, "HLS", "hls", "bgr2hls")
bgr2lab(m, img)  == bgr2(m, img, BGR2LAB, "LAB", "lab", "bgr2lab")

(* ---- caer/color/_hls.py ---------------------------------------------- *)

_is_hls_image(img) == Len(img.shape) = 3 /\ img.shape[Len(img.shape)] = 3

\* hls2rgb converting in place (cv.cvtColor(img, HLS2RGB, dst=img))
hls2rgb_inplace(m, img) ==
  LET m1 == Checked(m, "_is_hls_image", "hls2rgb", img) IN
  IF ~ _is_hls_image(m.heap[img])
  THEN Raise(m1, ShapeMessage(m.heap[img], "HLS", "RGB"))
  ELSE LET im == cvtColor(m1, img, HLS2RGB, "hls2rgb") IN
       IF ~ im.ok THEN im
       ELSE to_tensor([im EXCEPT !.heap[img] = im.heap[im.out]], img,
                      "rgb", "hls2rgb")

\* hls2rgb passing the code of the other direct conversion
hls2rgb_wrong_code(m, img) ==
  LET m1 == Checked(m, "_is_hls_image", "hls2rgb", img) IN
  IF ~ _is_hls_image(m.heap[img])
  THEN Raise(m1, ShapeMessage(m.heap[img], "HLS", "RGB"))
  ELSE LET im == cvtColor(m1, img, HLS2BGR, "hls2rgb") IN
       IF ~ im.ok THEN im ELSE to_tensor(im, im.out, "rgb", "hls2rgb")

hls2rgb(m, img) ==
  LET m1 == Checked(m, "_is_hls_image", "hls2rgb", img) IN
  IF ~ _is_hls_image(m.heap[img])
  THEN Raise(m1, ShapeMessage(m.heap[img], "HLS", "RGB"))
  ELSE LET im == cvtColor(m1, img, HLS2RGB, "hls2rgb") IN
       IF ~ im.ok THEN im ELSE to_tensor(im, im.out, "rgb", "hls2rgb")

\* hls2bgr reporting the channel count img.shape[-1] as the shape found
hls2bgr_found_channels(m, img) ==
  LET m1 == Checked(m, "_is_hls_image", "hls2bgr", img)
      sh == m.heap[img].shape
      ms == [ShapeMessage(m.heap[img], "HLS", "BGR")
               EXCEPT !.found = IF sh = <<>> THEN 0 ELSE sh[Len(sh)]]
  IN
  IF ~ _is_hls_image(m.heap[img])
  THEN Raise(m1, ms)
  ELSE LET im == cvtColor(m1, img, HLS2BGR, "hls2bgr") IN
       IF ~ im.ok THEN im ELSE to_tensor(im, im.out, "bgr", "hls2bgr")

hls2bgr(m, img) ==
  LET m1 == Checked(m, "_is_hls_image", "hls2bgr", img) IN
  IF ~ _is_hls_image(m.heap[img])
  THEN Raise(m1, ShapeMessage(m.heap[img], "HLS", "BGR"))
  ELSE LET im == cvtColor(m1, img, HLS2BGR, "hls2bgr") IN
       IF ~ im.ok THEN im ELSE to_tensor(im, im.out, "bgr", "hls2bgr")

hls2gray(m, img) ==
  LET m1 == Checked(m, "_is_hls_image", "hls2gray", img) IN
  IF ~ _is_hls_image(m.heap[img])
  THEN Raise(m1, ShapeMessage(m.heap[img], "HLS", "Grayscale"))
  ELSE LET bgr == hls2bgr(m1, img) IN
       IF ~ bgr.ok THEN bgr
       ELSE LET im == bgr2gray(bgr, bgr.out) IN
            IF ~ im.ok THEN im ELSE to_tensor(im, im.out, "gray", "hls2gray")

hls2hsv(m, img) ==
  LET m1 == Checked(m, "_is_hls_image", "hls2hsv", img) IN
  IF ~ _is_hls_image(m.heap[img])
  THEN Raise(m1, ShapeMessage(m.heap[img], "HLS", "LAB"))
  ELSE LET bgr == hls2bgr(m1, img) IN
       IF ~ bgr.ok THEN bgr
       ELSE LET im == bgr2hsv(bgr, bgr.out) IN
            IF ~ im.ok THEN im ELSE to_tensor(im, im.out, "hsv", "hls2hsv")

\* hls2lab whose first hop converts with the HSV module's code
hls2lab_via_hsv2bgr(m, img) ==
  LET m1 == Checked(m, "_is_hls_image", "hls2lab", img) IN
  IF ~ _is_hls_image(m.heap[img])
  THEN Raise(m1, ShapeMessage(m.heap[img], "HLS", "LAB"))
  ELSE LET bgr == cvtColor(m1, img, HSV2BGR, "hls2bgr") IN
       IF ~ bgr.ok THEN bgr
       ELSE LET b2 == to_tensor(bgr, bgr.out, "bgr", "hls2bgr")
                im == bgr2lab(b2, b2.out) IN
            IF ~ im.ok THEN im ELSE to_tensor(im, im.out, "lab", "hls2lab")

hls2lab(m, img) ==
  LET m1 == Checked(m, "_is_hls_image", "hls2lab", img) IN
  IF ~ _is_hls_image(m.heap[img])
  THEN Raise(m1, ShapeMessage(m.heap[img], "HLS", "LAB"))
  ELSE LET bgr == hls2bgr(m1, img) IN
       IF ~ bgr.ok THEN bgr
       ELSE LET im == bgr2lab(bgr, bgr.out) IN
            IF ~ im.ok THEN im ELSE to_tensor(im, im.out, "lab", "hls2lab")

(* ---- caer/color/_hsv.py ---------------------------------------------- *)

\* _is_hsv_image looking at the channel count only
_is_hsv_image_channels_only(img) ==
  Len(img.shape) >= 1 /\ img.shape[Len(img.shape)] = 3

_is_hsv_image(img) == Len(img.shape) = 3 /\ img.shape[Len(img.shape)] = 3

\* hsv2rgb without its shape gate
hsv2rgb_ungated(m, img) ==
  LET im == cvtColor(m, img, HSV2RGB, "hsv2rgb") IN
  IF ~ im.ok THEN im ELSE to_tensor(im, im.out, "rgb", "hsv2rgb")

hsv2rgb(m, img) ==
  LET m1 == Checked(m, "_is_hsv_image", "hsv2rgb", img) IN
  IF ~ _is_hsv_image(m.heap[img])
  THEN Raise(m1, ShapeMessage(m.heap[img], "HSV", "RGB"))
  ELSE LET im == cvtColor(m1, img, HSV2RGB, "hsv2rgb") IN
       IF ~ im.ok THEN im ELSE to_tensor(im, im.out, "rgb", "hsv2rgb")

\* hsv2bgr relying on its caller's validation
hsv2bgr_unchecked(m, img) ==
  LET im == cvtColor(m, img, HSV2BGR, "hsv2bgr") IN
  IF ~ im.ok THEN im ELSE to_tensor(im, im.out, "bgr", "hsv2bgr")

hsv2bgr(m, img) ==
  LET m1 == Checked(m, "_is_hsv_image", "hsv2bgr", img) IN
  IF ~ _is_hsv_image(m.heap[img])
  THEN Raise(m1, ShapeMessage(m.heap[img], "HSV", "BGR"))
  ELSE LET im == cvtColor(m1, img, HSV2BGR, "hsv2bgr") IN
       IF ~ im.ok THEN im ELSE to_tensor(im, im.out, "bgr", "hsv2bgr")

\* hsv2gray returning the BGR module's Tensor as it is
hsv2gray_no_rewrap(m, img) ==
  LET m1 == Checked(m, "_is_hsv_image", "hsv2gray", img) IN
  IF ~ _is_hsv_image(m.heap[img])
  THEN Raise(m1, ShapeMessage(m.heap[img], "HSV", "Grayscale"))
  ELSE LET bgr == hsv2bgr(m1, img) IN
       IF ~ bgr.ok THEN bgr ELSE bgr2gray(bgr, bgr.out)

hsv2gray(m, img) ==
  LET m1 == Checked(m, "_is_hsv_image", "hsv2gray", img) IN
  IF ~ _is_hsv_image(m.heap[img])
  THEN Raise(m1, ShapeMessage(m.heap[img], "HSV", "Grayscale"))
  ELSE LET bgr == hsv2bgr(m1, img) IN
       IF ~ bgr.ok THEN bgr
       ELSE LET im == bgr2gray(bgr, bgr.out) IN
            IF ~ im.ok THEN im ELSE to_tensor(im, im.out, "gray", "hsv2gray")

\* hsv2hls stamping the source space on its result
hsv2hls_tagged_hsv(m, img) ==
  LET m1 == Checked(m, "_is_hsv_image", "hsv2hls", img) IN
  IF ~ _is_hsv_image(m.heap[img])
  THEN Raise(m1, ShapeMessage(m.heap[img], "HSV", "HLS"))
  ELSE LET bgr == hsv2bgr(m1, img) IN
       IF ~ bgr.ok THEN bgr
       ELSE LET im == bgr2hls(bgr, bgr.out) IN
            IF ~ im.ok THEN im ELSE to_tensor(im, im.out, "hsv", "hsv2hls")

hsv2hls(m, img) ==
  LET m1 == Checked(m, "_is_hsv_image", "hsv2hls", img) IN
  IF ~ _is_hsv_image(m.heap[img])
  THEN Raise(m1, ShapeMessage(m.heap[img], "HSV", "HLS"))
  ELSE LET bgr == hsv2bgr(m1, img) IN
       IF ~ bgr.ok THEN bgr
       ELSE LET im == bgr2hls(bgr, bgr.out) IN
            IF ~ im.ok THEN im ELSE to_tensor(im, im.out, "hls", "hsv2hls")

hsv2lab(m, img) ==
  LET m1 == Checked(m, "_is_hsv_image", "hsv2lab", img) IN
  IF ~ _is_hsv_image(m.heap[img])
  THEN Raise(m1, ShapeMessage(m.heap[img], "HSV", "LAB"))
  ELSE LET bgr == hsv2bgr(m1, img) IN
       IF ~ bgr.ok THEN bgr
       ELSE LET im == bgr2lab(bgr, bgr.out) IN
            IF ~ im.ok THEN im ELSE to_tensor(im, im.out, "lab", "hsv2lab")

(* ---- the caller ------------------------------------------------------ *)

\* the machine a call starts in: the current heap and an empty log
Now == [heap |-> heap, log |-> <<>>]

NoCall == [fn |-> "none", arg |-> 0, ok |-> FALSE, out |-> 0,
           msg |-> NoMsg, log |-> <<>>]

\* the caller owns one image of any shape and tag
Init ==
  /\ \E s \in Shapes, t \in InputTags :
        heap = << [data |-> <<"x">>, shape |-> s, cspace |-> t] >>
  /\ held = {1}
  /\ last = NoCall

\* one finished call: the result's heap becomes the heap, a returned Tensor
\* is handed to the caller
Return(fn, img, r) ==
  /\ heap' = r.heap
  /\ held' = IF r.ok THEN held \cup {r.out} ELSE held
  /\ last' = [fn |-> fn, arg |-> img, ok |-> r.ok, out |-> r.out,
              msg |-> r.msg, log |-> r.log]

CanCall == Cardinality(held) < MaxHeld

CallHls2Rgb  == \E img \in held : CanCall /\ Return("hls2rgb", img, hls2rgb(Now, img))
CallHls2Bgr  == \E img \in held : CanCall /\ Return("hls2bgr", img, hls2bgr(Now, img))
CallHls2Gray == \E img \in held : CanCall /\ Return("hls2gray", img, hls2gray(Now, img))
CallHls2Hsv  == \E img \in held : CanCall /\ Return("hls2hsv", img, hls2hsv(Now, img))
CallHls2Lab  == \E img \in held : CanCall /\ Return("hls2lab", img, hls2lab(Now, img))
CallHsv2Rgb  == \E img \in held : CanCall /\ Return("hsv2rgb", img, hsv2rgb(Now, img))
CallHsv2Bgr  == \E img \in held : CanCall /\ Return("hsv2bgr", img, hsv2bgr(Now, img))
CallHsv2Gray == \E img \in held : CanCall /\ Return("hsv2gray", img, hsv2gray(Now, img))
CallHsv2Hls  == \E img \in held : CanCall /\ Return("hsv2hls", img, hsv2hls(Now, img))
CallHsv2Lab  == \E img \in held : CanCall /\ Return("hsv2lab", img, hsv2lab(Now, img))
CallBgr2Gray == \E img \in held : CanCall /\ Return("bgr2gray", img, bgr2gray(Now, img))
CallBgr2Hsv  == \E img \in held : CanCall /\ Return("bgr2hsv", img, bgr2hsv(Now, img))
CallBgr2Hls  == \E img \in held : CanCall /\ Return("bgr2hls", img, bgr2hls(Now, img))
CallBgr2Lab  == \E img \in held : CanCall /\ Return("bgr2lab", img, bgr2lab(Now, img))

Next ==
  \/ CallHls2Rgb \/ CallHls2Bgr \/ CallHls2Gray \/ CallHls2Hsv \/ CallHls2Lab
  \/ CallHsv2Rgb \/ CallHsv2Bgr \/ CallHsv2Gray \/ CallHsv2Hls \/ CallHsv2Lab
  \/ CallBgr2Gray \/ CallBgr2Hsv \/ CallBgr2Hls \/ CallBgr2Lab

Spec == Init /\ [][Next]_vars

TypeOK ==
  /\ held \subseteq 1..Len(heap)
  /\ last.arg \in 0..Len(heap)
  /\ last.out \in 0..Len(heap)
(* ---- vocabulary of the properties ------------------------------------ *)

HlsFns  == {"hls2rgb", "hls2bgr", "hls2gray", "hls2hsv", "hls2lab"}
HsvFns  == {"hsv2rgb", "hsv2bgr", "hsv2gray", "hsv2hls", "hsv2lab"}
TenFns  == HlsFns \cup HsvFns
Direct  == {"hls2rgb", "hls2bgr", "hsv2rgb", "hsv2bgr"}
Chained == TenFns \ Direct
BgrFns  == {"bgr2gray", "bgr2hsv", "bgr2hls", "bgr2lab"}
DirectCodes == {HLS2RGB, HLS2BGR, HSV2RGB, HSV2BGR}

\* the colour-space tag of the destination a function declares
DeclaredTag(fn) ==
  CASE fn \in {"hls2rgb", "hsv2rgb"}   -> "rgb"
    [] fn \in {"hls2bgr", "hsv2bgr"}   -> "bgr"
    [] fn \in {"hls2gray", "hsv2gray"} -> "gray"
    [] fn = "hls2hsv"                  -> "hsv"
    [] fn = "hsv2hls"                  -> "hls"
    [] fn \in {"hls2lab", "hsv2lab"}   -> "lab"

\* the names a message uses for the declared source and destination
DeclaredSrcName(fn) == IF fn \in HlsFns THEN "HLS" ELSE "HSV"
DeclaredDstName(fn) ==
  CASE DeclaredTag(fn) = "rgb"  -> "RGB"
    [] DeclaredTag(fn) = "bgr"  -> "BGR"
    [] DeclaredTag(fn) = "gray" -> "Grayscale"
    [] DeclaredTag(fn) = "hsv"  -> "HSV"
    [] DeclaredTag(fn) = "hls"  -> "HLS"
    [] DeclaredTag(fn) = "lab"  -> "LAB"

\* the direct converter and the BGR function a chained converter is the
\* composition of
FirstHopName(fn)  == IF fn \in HlsFns THEN "hls2bgr" ELSE "hsv2bgr"
SecondHopName(fn) ==
  CASE DeclaredTag(fn) = "gray" -> "bgr2gray"
    [] DeclaredTag(fn) = "hsv"  -> "bgr2hsv"
    [] DeclaredTag(fn) = "hls"  -> "bgr2hls"
    [] DeclaredTag(fn) = "lab"  -> "bgr2lab"
OwnCode(fn) ==
  CASE fn = "hls2rgb" -> HLS2RGB
    [] fn = "hls2bgr" -> HLS2BGR
    [] fn = "hsv2rgb" -> HSV2RGB
    [] fn = "hsv2bgr" -> HSV2BGR

\* positions of the log holding an event of the given kind
At(log, op) == {i \in DOMAIN log : log[i].op = op}
\* the shape of the argument of the last call
ArgShape == heap[last.arg].shape
Called == last.fn \in TenFns

Valid3(shape) == Len(shape) = 3 /\ shape[3] = 3

Apply(fn, m, img) ==
  CASE fn = "hls2rgb"  -> hls2rgb(m, img)
    [] fn = "hls2bgr"  -> hls2bgr(m, img)
    [] fn = "hls2gray" -> hls2gray(m, img)
    [] fn = "hls2hsv"  -> hls2hsv(m, img)
    [] fn = "hls2lab"  -> hls2lab(m, img)
    [] fn = "hsv2rgb"  -> hsv2rgb(m, img)
    [] fn = "hsv2bgr"  -> hsv2bgr(m, img)
    [] fn = "hsv2gray" -> hsv2gray(m, img)
    [] fn = "hsv2hls"  -> hsv2hls(m, img)
    [] fn = "hsv2lab"  -> hsv2lab(m, img)
    [] fn = "bgr2gray" -> bgr2gray(m, img)
    [] fn = "bgr2hsv"  -> bgr2hsv(m, img)
    [] fn = "bgr2hls"  -> bgr2hls(m, img)
    [] fn = "bgr2lab"  -> bgr2lab(m, img)
(* ---- C1 -------------------------------------------------------------- *)

\* C1: a call of any of the ten converters on an input whose shape has
\* len(shape) # 3 or shape[-1] # 3 ends in the shape error, never invokes
\* cv.cvtColor and returns no container.
C1_ShapeGate ==
  (Called /\ ~ Valid3(ArgShape)) =>
     /\ ~ last.ok
     /\ last.out = 0
     /\ last.msg.kind = "ValueError"
     /\ At(last.log, "cvtColor") = {}
     /\ At(last.log, "to_tensor") = {}

C1_Witness ==
  /\ last.fn \in Chained
  /\ Len(ArgShape) = 3 /\ ArgShape[3] # 3
  /\ ~ last.ok

(* ---- C2 -------------------------------------------------------------- *)

\* C2: the container a successful call returns carries the tag of the
\* function's declared destination, whatever the tag of the intermediate
\* BGR container.
C2_TagCorrect ==
  (Called /\ last.ok) => heap[last.out].cspace = DeclaredTag(last.fn)

C2_Witness ==
  /\ last.fn = "hsv2hls" /\ last.ok
  /\ heap[last.out].cspace = "hls"
  /\ \E i \in 1..Len(heap) : i > last.arg /\ heap[i].cspace = "bgr"

(* ---- C3 -------------------------------------------------------------- *)

\* C3: the message of a rejected call names the source and the destination
\* of the function that was called, and two functions of one module with
\* different destinations never give the same message for the same input.
C3_MessageNamesConversion ==
  /\ (Called /\ ~ last.ok) =>
        /\ last.msg.src = DeclaredSrcName(last.fn)
        /\ last.msg.dst = DeclaredDstName(last.fn)
  /\ (Called /\ ~ last.ok) =>
        \A g \in (IF last.fn \in HlsFns THEN HlsFns ELSE HsvFns) \ {last.fn} :
           Apply(g, Now, last.arg).msg # last.msg

(* ---- C4 -------------------------------------------------------------- *)

\* C4: the message of a rejected call embeds the expected dimensionality 3
\* and the actual dimensionality len(img.shape), also when len(shape) = 3
\* and only the channel count is wrong; hls2bgr on a 4x4 input reports
\* expected 3, found 2 and the BGR destination.
C4_MessageDimensions ==
  (Called /\ ~ last.ok) =>
     /\ last.msg.expected = 3
     /\ last.msg.found = Len(ArgShape)
     /\ (Len(ArgShape) = 3 => last.msg.found = 3)
     /\ (last.fn = "hls2bgr" /\ ArgShape = <<4, 4>>) =>
           (last.msg.found = 2 /\ last.msg.dst = "BGR")

C4_Witness ==
  /\ last.fn = "hls2bgr" /\ ArgShape = <<4, 4>> /\ ~ last.ok
  /\ last.msg.found = 2 /\ last.msg.dst = "BGR"
(* ---- C5 -------------------------------------------------------------- *)

\* C5: a successful chained call returns the buffer that the explicit
\* composition returns, second hop of the BGR module applied to the result
\* of the module's own source->BGR converter; in the call the first hop's
\* native conversion of the caller's input precedes the second hop's.
C5_ChainedEqualsComposition ==
  (last.fn \in Chained /\ last.ok) =>
     LET one == Apply(FirstHopName(last.fn), Now, last.arg)
         two == Apply(SecondHopName(last.fn), one, one.out)
         cv  == At(last.log, "cvtColor")
     IN  /\ one.ok /\ two.ok
         /\ heap[last.out].data = two.heap[two.out].data
         /\ heap[last.out].shape = two.heap[two.out].shape
         /\ \E i, j \in cv :
              /\ i < j
              /\ last.log[i].by = FirstHopName(last.fn)
              /\ last.log[i].on = last.arg
              /\ last.log[j].by = SecondHopName(last.fn)
              /\ heap[last.log[j].on].cspace = "bgr"
              /\ \A k \in cv : k = i \/ k = j

C5_Witness ==
  /\ last.fn = "hls2lab" /\ last.ok
  /\ heap[last.out].data = <<"x", HLS2BGR, BGR2LAB>>

(* ---- C6 -------------------------------------------------------------- *)

\* C6: no call changes the buffer, shape or tag of an object that existed
\* before it; a successful call returns an object that did not exist before
\* it (so not its input); a rejected call changes nothing.
C6_InputsUntouched ==
  [][ /\ \A i \in 1..Len(heap) : i \in 1..Len(heap') /\ heap'[i] = heap[i]
      /\ last'.ok => (last'.out \notin 1..Len(heap) /\ last'.out # last'.arg)
      /\ ~ last'.ok => (heap' = heap /\ held' = held) ]_vars

C6_Witness ==
  /\ Cardinality(held) = 3
  /\ Called /\ last.ok
  /\ last.arg # 1
  /\ heap[1].data = <<"x">>

(* ---- C7 -------------------------------------------------------------- *)

\* C7 as stated: every successful call makes exactly one native conversion
\* and constructs exactly one container.
C7_OneBufferOneContainer ==
  (Called /\ last.ok) =>
     /\ Cardinality(At(last.log, "cvtColor")) = 1
     /\ Cardinality(At(last.log, "to_tensor")) = 1

\* C7 amended: a successful direct call makes one native conversion and one
\* container; a successful chained call makes two native conversions (one
\* per hop) and three containers (first hop, second hop, final re-wrap).
C7_AllocationsPerCall ==
  (Called /\ last.ok) =>
     LET cv == At(last.log, "cvtColor")
         tt == At(last.log, "to_tensor")
         By(S, f) == Cardinality({i \in S : last.log[i].by = f})
     IN  IF last.fn \in Direct
         THEN Cardinality(cv) = 1 /\ Cardinality(tt) = 1
         ELSE /\ Cardinality(cv) = 2 /\ Cardinality(tt) = 3
              /\ By(cv, FirstHopName(last.fn)) = 1
              /\ By(tt, FirstHopName(last.fn)) = 1
              /\ By(cv, SecondHopName(last.fn)) = 1
              /\ By(tt, SecondHopName(last.fn)) = 1
              /\ By(tt, last.fn) = 1

C7_Witness ==
  /\ last.fn = "hsv2gray" /\ last.ok
  /\ Cardinality(At(last.log, "to_tensor")) = 3

(* ---- C8 -------------------------------------------------------------- *)

\* C8 as stated: in a chained call the shape check on the caller's input is
\* evaluated exactly once, by the chained function itself.
C8_CheckedOnce ==
  (last.fn \in Chained) =>
     LET ck == {i \in At(last.log, "check") : last.log[i].on = last.arg}
     IN  Cardinality(ck) = 1 /\ \A i \in ck : last.log[i].by = last.fn

\* C8 amended: in a successful chained call the shape check on the caller's
\* input is evaluated exactly twice, first at the chained function's entry
\* and then again by the first hop, before any native call; a rejected
\* chained call evaluates it once, at entry.
C8_CheckedAtEntryAndFirstHop ==
  (last.fn \in Chained) =>
     LET ck == {i \in At(last.log, "check") : last.log[i].on = last.arg}
     IN  IF last.ok
         THEN /\ ck = {1, 2}
              /\ last.log[1].by = last.fn
              /\ last.log[2].by = FirstHopName(last.fn)
              /\ \A i \in At(last.log, "cvtColor") : i > 2
         ELSE ck = {1} /\ last.log[1].by = last.fn /\ Len(last.log) = 1

C8_Witness ==
  /\ last.fn = "hls2gray" /\ last.ok
  /\ last.log[2] = Ev("check", "hls2bgr", "_is_hls_image", last.arg)

(* ---- C9 -------------------------------------------------------------- *)

\* C9: a successful direct call invokes the native primitive exactly once,
\* with its own conversion code and the caller's input, and returns a
\* container over the buffer that call produced; the native calls issued by
\* the ten functions themselves only ever use the four direct codes.
C9_DirectUsesOwnCode ==
  /\ (last.fn \in Direct /\ last.ok) =>
        LET cv == At(last.log, "cvtColor") IN
        /\ Cardinality(cv) = 1
        /\ \A i \in cv : /\ last.log[i].what = OwnCode(last.fn)
                         /\ last.log[i].on = last.arg
                         /\ last.log[i].by = last.fn
        /\ heap[last.out].data = Append(heap[last.arg].data, OwnCode(last.fn))
        /\ \A i \in At(last.log, "to_tensor") :
              /\ heap[last.log[i].on].cspace = "ndarray"
              /\ heap[last.log[i].on].data = heap[last.out].data
  /\ Called =>
        \A i \in At(last.log, "cvtColor") :
           last.log[i].by \in TenFns => last.log[i].what \in DirectCodes

C9_Witness ==
  /\ last.fn = "hsv2rgb" /\ last.ok
  /\ heap[last.out].data = <<"x", HSV2RGB>>

(* ---- C10 ------------------------------------------------------------- *)

\* C10: both validators hold exactly of the shapes with len(shape) = 3 and
\* shape[-1] = 3, the empty shape included; they agree on every object,
\* whatever its tag and data, and an HLS conversion rejects an input exactly
\* when the HSV conversion to the same destination rejects it.
C10_Validators ==
  /\ \A x \in 1..Len(heap) :
        /\ _is_hls_image(heap[x]) = Valid3(heap[x].shape)
        /\ _is_hsv_image(heap[x]) = Valid3(heap[x].shape)
        /\ \A y \in 1..Len(heap) :
              heap[x].shape = heap[y].shape =>
                 /\ _is_hls_image(heap[x]) = _is_hls_image(heap[y])
                 /\ _is_hsv_image(heap[x]) = _is_hsv_image(heap[y])
  /\ \A x \in held, f \in HlsFns, g \in HsvFns :
        DeclaredTag(f) = DeclaredTag(g) =>
           Apply(f, Now, x).ok = Apply(g, Now, x).ok
  /\ Called => (last.ok <=> Valid3(ArgShape))

C10_Witness ==
  /\ heap[1].shape = <<>>
  /\ Called /\ ~ last.ok /\ last.arg = 1
  /\ ~ _is_hls_image(heap[1]) /\ ~ _is_hsv_image(heap[1])
====
